---------------------------- MODULE Spec2Model ----------------------------
(***************************************************************************)
(* Model of the request execution engine of the FHIR REST client           *)
(* (crates/fhir-sdk/src/client/mod.rs): Client::run_request with its       *)
(* origin guard, correlation id tagging, the auth-retry protocol around    *)
(* the tokio mutex `auth_callback`, the std mutex `request_settings`, and   *)
(* the version guard; the settings API and Debug formatting of the client; *)
(* bundles (extensions/bundle.rs), transactions and search paging; and the *)
(* operation $status on Subscription (client/r5/mod.rs).                   *)
(*                                                                         *)
(* Option<T> is modelled as a sequence: None is <<>>, Some(x) is <<x>>.    *)
(* Text (version strings) is modelled as a sequence of characters.         *)
(***************************************************************************)
EXTENDS Naturals, Sequences, FiniteSets

\* Number of concurrent callers sharing one Client (each runs one run_request).
NumCallers == 2

Callers == 1..NumCallers

\* Number of threads that call the settings API of the shared Client
\* (request_settings, set_request_settings, patch_request_settings), one call
\* sequence each.
NumThreads == 2

Threads == (NumCallers + 1)..(NumCallers + NumThreads)

\* Number of concurrent callers that contend for the credential lock where the
\* waiting of callers is studied (one refreshing, one queued, one arriving).
NumContenders == 3

Contenders == 1..NumContenders

\* Largest number of operations planned in one transaction.
MaxOps == 3

\* Largest number of pages of a search result, and of entries of one page.
MaxPages == 3
MaxEntries == 2

\* reqwest::StatusCode::UNAUTHORIZED
UNAUTHORIZED == 401

\* Status codes a server may answer with: success, or unauthorized.
Statuses == {200, UNAUTHORIZED}

\* fhir_model::r4b::VERSION = "4.3"
VERSION == <<"4", ".", "3">>

None == <<>>
Some(x) == <<x>>

\* A mutex (the tokio mutex auth_callback, the std mutex request_settings) that
\* nobody owns.
Free == 0

-----------------------------------------------------------------------------
(* Pure helpers *)

\* str::split_once('.') followed by map_or(whole, |(major, _)| major):
\* the text before the first '.', or the whole text when there is no '.'.
MajorOf(s) ==
    IF \E i \in 1..Len(s) : s[i] = "."
    THEN LET first == CHOOSE i \in 1..Len(s) :
                          /\ s[i] = "."
                          /\ \A j \in 1..(i - 1) : s[j] # "."
         IN  SubSeq(s, 1, first - 1)
    ELSE s

\* let expected = V::VERSION.split_once('.').map_or(V::VERSION, |(major, _)| major);
Expected == MajorOf(VERSION)

\* Url::origin(): scheme, host and port of the URL; the path plays no role.
Origin(url) == <<url.scheme, url.host, url.port>>

\* The base URL of the client (tests: http://localhost:8090/fhir/).
BaseUrl == [scheme |-> "http", host |-> "localhost", port |-> 8090, path |-> "fhir"]

\* URLs a request may target: the base origin with another path, and a foreign
\* origin that differs from the base URL in its port only.
SameOriginUrl == [scheme |-> "http", host |-> "localhost", port |-> 8090, path |-> "fhir/Patient"]
ForeignUrls ==
    { [scheme |-> "http", host |-> "localhost", port |-> 8091, path |-> "fhir/Patient"] }

\* What the version-indicating response header may hold: absent, "4.0", "5".
VersionHeaders == { None, Some(<<"4", ".", "0">>), Some(<<"5">>) }

\* The responses a server that reports version header h may give.
Responses(h) == [status : Statuses, fhir_version : {h}]

\* Request builders handed to run_request.  kind: whether try_clone()/build() work.
\* X-Correlation-Id values: the one a caller may supply, and the n-th UUID that
\* Uuid::new_v4() generates inside call c (fresh: no two generations agree).
CallerCorrelationId == <<"caller", 0, 0>>
Uuid(c, n) == <<"uuid", c, n>>
Requests ==
    [kind : {"ok"}, url : {SameOriginUrl}, correlation : {None, Some(CallerCorrelationId)}]
    \cup [kind : {"ok"}, url : ForeignUrls, correlation : {None}]
    \cup [kind : {"not_clone", "build_error"}, url : {SameOriginUrl}, correlation : {None}]
    \cup [kind : {"not_clone"}, url : ForeignUrls, correlation : {None}]

\* misc::parse_major_fhir_version(headers): None without the header, else the
\* major component of the version it carries.
parse_major_fhir_version(header) ==
    IF header = None THEN None ELSE Some(MajorOf(header[1]))

Ok(r) == [tag |-> "Ok", response |-> Some(r), detail |-> None]
Err(tag, d) == [tag |-> tag, response |-> None, detail |-> d]
NoResult == [tag |-> "pending", response |-> None, detail |-> None]

\* Variant of SetAuthorization: settings that hold the Authorization header
\* alone, the other default headers being dropped.
AuthorizationAlone(settings, value) ==
    [authorization |-> value, accept |-> "none", retries |-> settings.retries]

\* RequestSettings::header(AUTHORIZATION, value): only the Authorization header changes.
SetAuthorization(settings, value) == [settings EXCEPT !.authorization = value]

-----------------------------------------------------------------------------
(* State *)

VARIABLES
    error_on_origin_mismatch,   \* ClientData.error_on_origin_mismatch
    error_on_version_mismatch,  \* ClientData.error_on_version_mismatch
    auth_callback,              \* content of the tokio mutex: None or Some("login_manager")
    server_version,             \* environment: the version header the server answers with
    request_pool,               \* environment: the request builders callers hand in
    auth_lock,                  \* owner of the tokio mutex auth_callback, or Free
    auth_waiters,               \* callers queued in auth_callback.lock().await, in FIFO order
    settings_lock,              \* owner of the std mutex request_settings, or Free
    request_settings,           \* content of the std mutex request_settings
    pc,                         \* per caller: position inside run_request
    request,                    \* per caller: the request builder (with its headers)
    settings_snapshot,          \* per caller: local variable request_settings
    response,                   \* per caller: local variable response
    auth_value,                 \* per caller: local variable auth_value
    result,                     \* per caller: what run_request returned
    sent,                       \* history, per caller: what each make_request call submitted
    statuses,                   \* history, per caller: status of each response received
    generated,                  \* history, per caller: number of ids generated by this call
    auth_calls,                 \* history: number of authenticate invocations so far
    invoked,                    \* history, per caller: authenticate invocations by this call
    lock_ops,                   \* history, per caller: try_lock/lock calls by this call
    waited,                     \* history, per caller: try_lock failed, the call waited
    blocked_by,                 \* history, per caller: who owned the mutex when try_lock failed
    supplied,                   \* history, per caller: X-Correlation-Id the caller supplied
    tokens,                     \* history: number of Authorization values authenticate returned
    failures,                   \* history: number of failed authenticate invocations
    api_pc,                     \* per thread: position inside its settings API calls
    api_op,                     \* per thread: what the thread does and with which arguments
    api_local,                  \* per thread: the RequestSettings value it holds locally
    fmt_pc,                     \* Debug formatting of the client: position inside fmt
    fmt_auth,                   \* Debug formatting: the text rendered for auth_callback
    fmt_settings,               \* Debug formatting: what was rendered for request_settings
    tx_pc,                      \* transaction: "building", "sent", "protocol_error", "iterated"
    tx_entries,                 \* transaction: the entries planned so far (Vec<Option<Entry>>)
    tx_bundle,                  \* transaction: the bundle that was submitted
    tx_stored,                  \* environment: per entry, the resource the server holds after it
    tx_returned,                \* transaction: the bundle the server returned
    tx_yielded,                 \* transaction: what the iteration over the returned entries yielded
    pg_pc,                      \* search: "idle", "streaming" or "ended"
    pg_pages,                   \* search: the pages (bundles) received so far
    pg_page,                    \* search: number of the page the stream is at
    pg_items,                   \* search: the items of that page not yet yielded
    pg_yielded,                 \* search: the items the stream has yielded
    pg_fetches,                 \* history: the pages fetched through a next link
    sub_pc,                     \* $status: position inside operation_subscription_status
    sub_url,                    \* $status: local variable url
    sub_response,               \* $status: the response run_request returned, if any
    sub_result,                 \* $status: what operation_subscription_status returned
    mk_pc,                      \* construction: "idle" or "built"
    mk_in,                      \* construction: the entry, request or entry list handed in
    mk_op,                      \* construction: the function applied, with its argument
    mk_out                      \* construction: what the function returned

config == <<error_on_origin_mismatch, error_on_version_mismatch, auth_callback,
            server_version, request_pool>>
shared == <<auth_lock, auth_waiters, settings_lock, request_settings>>
locals == <<pc, request, settings_snapshot, response, auth_value, result>>
history == <<sent, statuses, generated, auth_calls, invoked, lock_ops, waited,
             blocked_by, supplied, tokens, failures>>
api == <<api_pc, api_op, api_local>>
debug == <<fmt_pc, fmt_auth, fmt_settings>>
client == <<config, shared, locals, history, api, debug>>
transaction == <<tx_pc, tx_entries, tx_bundle, tx_stored, tx_returned, tx_yielded>>
paging == <<pg_pc, pg_pages, pg_page, pg_items, pg_yielded, pg_fetches>>
subscription == <<sub_pc, sub_url, sub_response, sub_result>>
construction == <<mk_pc, mk_in, mk_op, mk_out>>
bundles == <<transaction, paging, subscription, construction>>
vars == <<client, bundles>>

\* The settings a client is built with: no Authorization header yet, and
\* other defaults that the request path only reads.
InitialSettings == [authorization |-> None, accept |-> "mime", retries |-> "policy"]

\* The RequestSettings values the settings API threads deal with.
SettingsSpace ==
    [authorization : {None, Some(7), Some(8)}, accept : {"mime", "json"}, retries : {"policy"}]

\* Mutators (FnOnce(RequestSettings) -> RequestSettings) handed to
\* patch_request_settings, as functions: set the Authorization header, set the
\* Accept header, and the closure |_| x that ignores its argument.
WithAuthorization(value) == [settings \in SettingsSpace |-> SetAuthorization(settings, value)]
WithAccept(value) == [settings \in SettingsSpace |-> [settings EXCEPT !.accept = value]]
Replace(x) == [settings \in SettingsSpace |-> x]

\* The settings value threads pass to set_request_settings and to |_| x.
NewSettings == [authorization |-> Some(8), accept |-> "mime", retries |-> "policy"]

Mutators == { WithAuthorization(Some(7)), WithAccept("json"), Replace(NewSettings) }

\* What a thread does with the settings: patch_request_settings(mutator),
\* set_request_settings(settings), or the caller-side sequence
\* set_request_settings(mutator(request_settings())).
SettingsOps ==
    [kind : {"patch", "read_then_set"}, mutator : Mutators, settings : {InitialSettings}]
    \cup [kind : {"set"}, mutator : {Replace(InitialSettings)}, settings : {NewSettings}]
NoOp == [kind |-> "none", mutator |-> Replace(InitialSettings), settings |-> InitialSettings]

-----------------------------------------------------------------------------
(* Bundles (extensions/bundle.rs) *)

\* BundleEntry::empty(): an entry with no field set.
empty == [full_url |-> None, request |-> None, resource |-> None, response |-> None]

\* Variant of with_full_url: the entry is returned as it came.
without_full_url(entry, full_url) == entry

with_full_url(entry, full_url) == [entry EXCEPT !.full_url = Some(full_url)]
with_request(entry, req) == [entry EXCEPT !.request = Some(req)]
with_resource(entry, resource) == [entry EXCEPT !.resource = Some(resource)]

\* BundleEntryRequest::make(url) and the setters of its method and If-Match.
make(url) == [url |-> url, method |-> "unset", if_match |-> None]
with_if_match(req, if_match) == [req EXCEPT !.if_match = Some(if_match)]
with_method_post(req) == [req EXCEPT !.method = "POST"]
with_method_put(req) == [req EXCEPT !.method = "PUT"]
with_method_delete(req) == [req EXCEPT !.method = "DELETE"]
with_method_get(req) == [req EXCEPT !.method = "GET"]

\* Iterator::flatten over a Vec<Option<T>>: the present elements, in order.
RECURSIVE Flatten(_)
Flatten(list) ==
    IF list = <<>> THEN <<>>
    ELSE IF Head(list) = None THEN Flatten(Tail(list))
    ELSE <<Head(list)[1]>> \o Flatten(Tail(list))

\* Variant of make_batch: the bundle holds the present entries only.
make_batch_of_present(entries) ==
    [type |-> "batch",
     entry |-> [i \in 1..Len(Flatten(entries)) |-> Some(Flatten(entries)[i])],
     link |-> None]

\* Bundle::make_batch(entries), Bundle::make_transaction(entries); link is the
\* next-page link of a search result.
make_batch(entries) == [type |-> "batch", entry |-> entries, link |-> None]
make_transaction(entries) == [type |-> "transaction", entry |-> entries, link |-> None]
NoBundle == [type |-> "none", entry |-> <<>>, link |-> None]

\* Variant of into_entries: the present entries, last one first.
RECURSIVE ReverseEntries(_)
ReverseEntries(list) ==
    IF list = <<>> THEN <<>>
    ELSE IF Head(list) = None THEN ReverseEntries(Tail(list))
    ELSE ReverseEntries(Tail(list)) \o <<Head(list)[1]>>
into_entries_reversed(bundle) == ReverseEntries(bundle.entry)

\* self.0.entry.iter().flatten() and self.0.entry.into_iter().flatten()
entries(bundle) == Flatten(bundle.entry)
into_entries(bundle) == Flatten(bundle.entry)

\* Variant of next_page_url: no bundle has a next link.
no_next_page_url(bundle) == None

\* Bundle::next_page_url(self): the URL of the link with relation "next".
next_page_url(bundle) == bundle.link

NoRequest == [kind |-> "ok", url |-> BaseUrl, correlation |-> None]
NoResponse == [status |-> 0, fhir_version |-> None]

\* A freshly built Client shared by `callers`, none of which has called
\* run_request yet, and by threads that have not called the settings API yet.
Built(callers) ==
    /\ auth_lock = Free
    /\ auth_waiters = <<>>
    /\ settings_lock = Free
    /\ request_settings = InitialSettings
    /\ pc = [c \in callers |-> "idle"]
    /\ request = [c \in callers |-> NoRequest]
    /\ settings_snapshot = [c \in callers |-> InitialSettings]
    /\ response = [c \in callers |-> NoResponse]
    /\ auth_value = [c \in callers |-> None]
    /\ result = [c \in callers |-> NoResult]
    /\ sent = [c \in callers |-> <<>>]
    /\ statuses = [c \in callers |-> <<>>]
    /\ generated = [c \in callers |-> 0]
    /\ auth_calls = 0
    /\ invoked = [c \in callers |-> 0]
    /\ lock_ops = [c \in callers |-> 0]
    /\ waited = [c \in callers |-> FALSE]
    /\ blocked_by = [c \in callers |-> Free]
    /\ supplied = [c \in callers |-> None]
    /\ tokens = 0
    /\ failures = 0
    /\ api_pc = [t \in Threads |-> "idle"]
    /\ api_op = [t \in Threads |-> NoOp]
    /\ api_local = [t \in Threads |-> InitialSettings]
    /\ fmt_pc = "idle"
    /\ fmt_auth = None
    /\ fmt_settings = None
    /\ tx_pc = "building"
    /\ tx_entries = <<>>
    /\ tx_bundle = NoBundle
    /\ tx_stored = <<>>
    /\ tx_returned = NoBundle
    /\ tx_yielded = <<>>
    /\ pg_pc = "idle"
    /\ pg_pages = <<>>
    /\ pg_page = 0
    /\ pg_items = <<>>
    /\ pg_yielded = <<>>
    /\ pg_fetches = <<>>
    /\ sub_pc = "idle"
    /\ sub_url = BaseUrl
    /\ sub_response = None
    /\ sub_result = NoResult
    /\ mk_pc = "idle"
    /\ mk_in = None
    /\ mk_op = None
    /\ mk_out = None

Init ==
    /\ error_on_origin_mismatch \in BOOLEAN
    /\ error_on_version_mismatch \in BOOLEAN
    /\ auth_callback \in {None, Some("login_manager")}
    /\ server_version \in VersionHeaders
    /\ request_pool = Requests
    /\ Built(Callers)

-----------------------------------------------------------------------------
(* run_request, step by step *)

\* Variant of OriginMismatch: only the host is compared.
HostMismatch(url) == url.host # BaseUrl.host

\* if info_request.url().origin() != self.0.base_url.origin()
OriginMismatch(url) == Origin(url) # Origin(BaseUrl)

\* Variant of RejectedBeforeSend: the origin guard is evaluated first, the
\* duplication of the request afterwards.
RejectedOriginFirst(req) ==
    IF error_on_origin_mismatch /\ OriginMismatch(req.url)
    THEN Some(Err("DifferentOrigin", Some(req.url)))
    ELSE IF req.kind = "not_clone" THEN Some(Err("RequestNotClone", None))
    ELSE IF req.kind = "build_error" THEN Some(Err("Request", None))
    ELSE None

\* Lines 144-152: what run_request returns before anything is sent, if anything:
\* try_clone() fails, build() fails, or the origin guard rejects the URL.
RejectedBeforeSend(req) ==
    IF req.kind = "not_clone" THEN Some(Err("RequestNotClone", None))
    ELSE IF req.kind = "build_error" THEN Some(Err("Request", None))
    ELSE IF error_on_origin_mismatch /\ OriginMismatch(req.url)
         THEN Some(Err("DifferentOrigin", Some(req.url)))
    ELSE None

\* Lines 156-164: the X-Correlation-Id header of the request after tagging; id is
\* what Uuid::new_v4() would return.
x_correlation_id(req, id) ==
    IF req.correlation # None THEN req.correlation ELSE Some(id)

\* Variant of IsUnauthorized: the comparison is inverted.
IsNotUnauthorized(r) == r.status # UNAUTHORIZED

\* response.status() == StatusCode::UNAUTHORIZED
IsUnauthorized(r) == r.status = UNAUTHORIZED

\* Variant of VersionGuard: a response without version header is rejected like
\* one with another major version.
VersionGuardStrict(r) ==
    IF error_on_version_mismatch
    THEN LET version == parse_major_fhir_version(r.fhir_version)
         IN  IF version = None \/ version[1] # Expected
             THEN Err("DifferentFhirVersion", version)
             ELSE Ok(r)
    ELSE Ok(r)

\* Lines 207-217: the version guard applied to the final response.
VersionGuard(r) ==
    IF error_on_version_mismatch
    THEN LET version == parse_major_fhir_version(r.fhir_version)
         IN  IF version # None /\ version[1] # Expected
             THEN Err("DifferentFhirVersion", version)
             ELSE Ok(r)
    ELSE Ok(r)

\* What make_request submits: the Authorization of the settings snapshot and the
\* headers of the request builder.
Submission(settings, req) ==
    [authorization |-> settings.authorization, correlation |-> req.correlation]

\* Variant of RetryRequest: the resend is built from the request as the caller
\* handed it in, without the header attached at line 162.
RetryRequestAsSupplied(c) == [request[c] EXCEPT !.correlation = supplied[c]]

\* Line 175 sends a clone of `request`; line 202 sends `request` itself.
FirstRequest(c) == request[c]
RetryRequest(c) == request[c]

\* Variant of TryLockSucceeds: the owner of the mutex is not looked at.
TryLockIgnoresOwner(owner) == TRUE

\* tokio::sync::Mutex::try_lock succeeds only on a mutex nobody owns.
TryLockSucceeds(owner) == owner = Free

\* Variant of AfterUnlock: the mutex is left without owner, with no regard to
\* the queue of waiters.
AfterUnlockNoHandOver == Free

\* Dropping the MutexGuard: the mutex goes to the first queued waiter, if any.
AfterUnlock == IF auth_waiters = <<>> THEN Free ELSE Head(auth_waiters)
WaitersAfterUnlock == IF auth_waiters = <<>> THEN <<>> ELSE Tail(auth_waiters)

\* Variant of AfterRetry: the auth-retry loops while the answer is 401.
AfterRetryLoops(r) == IF r.status = UNAUTHORIZED THEN "try_lock" ELSE "done"

\* Where run_request continues after the response to the resend (line 202): the
\* auth-retry is an `if`, not a loop, so the version guard follows.
AfterRetry(r) == "done"

\* Lines 144-164: clone and build, origin guard, correlation id.
\* Callers are numbered in the order in which they call run_request.
Begin(c) ==
    /\ pc[c] = "idle"
    /\ \A d \in 1..(c - 1) : pc[d] # "idle"
    /\ \E req \in request_pool :
          LET rejected == RejectedBeforeSend(req)
              tagged == [req EXCEPT !.correlation = x_correlation_id(req, Uuid(c, generated[c] + 1))]
              fresh == IF req.correlation = None THEN 1 ELSE 0
          IN  IF rejected # None
              THEN /\ pc' = [pc EXCEPT ![c] = "done"]
                   /\ result' = [result EXCEPT ![c] = rejected[1]]
                   /\ request' = [request EXCEPT ![c] = req]
                   /\ supplied' = [supplied EXCEPT ![c] = req.correlation]
                   /\ UNCHANGED <<settings_snapshot, generated>>
              ELSE /\ pc' = [pc EXCEPT ![c] = "snapshot"]
                   /\ request' = [request EXCEPT ![c] = tagged]
                   /\ supplied' = [supplied EXCEPT ![c] = req.correlation]
                   /\ generated' = [generated EXCEPT ![c] = @ + fresh]
                   /\ UNCHANGED <<settings_snapshot, result>>
    /\ UNCHANGED <<api, debug, bundles>>
    /\ UNCHANGED <<config, shared, response, auth_value>>
    /\ UNCHANGED <<sent, statuses, auth_calls, invoked, lock_ops, waited, blocked_by,
                   tokens, failures>>

\* Lines 86 and 107: self.0.request_settings.lock() in request_settings() and in
\* patch_request_settings(); the thread blocks while another one owns the mutex.
LockSettings(c) ==
    /\ pc[c] \in {"snapshot", "patch", "reread"}
    /\ settings_lock = Free
    /\ settings_lock' = c
    /\ UNCHANGED <<api, debug, bundles>>
    /\ UNCHANGED <<config, auth_lock, auth_waiters, request_settings>>
    /\ UNCHANGED locals
    /\ UNCHANGED history

\* Variant of Snapshot: the guard of the settings mutex outlives the statement.
SnapshotKeepsGuard(c) ==
    /\ pc[c] = "snapshot"
    /\ settings_lock = c
    /\ settings_snapshot' = [settings_snapshot EXCEPT ![c] = request_settings]
    /\ pc' = [pc EXCEPT ![c] = "send1"]
    /\ UNCHANGED <<api, debug, bundles>>
    /\ UNCHANGED <<config, shared>>
    /\ UNCHANGED <<request, response, auth_value, result>>
    /\ UNCHANGED history

\* Line 168: let mut request_settings = self.request_settings(); the clone is
\* taken under the guard, which is dropped at the end of the statement.
Snapshot(c) ==
    /\ pc[c] = "snapshot"
    /\ settings_lock = c
    /\ settings_snapshot' = [settings_snapshot EXCEPT ![c] = request_settings]
    /\ settings_lock' = Free
    /\ pc' = [pc EXCEPT ![c] = "send1"]
    /\ UNCHANGED <<api, debug, bundles>>
    /\ UNCHANGED <<config, auth_lock, auth_waiters, request_settings>>
    /\ UNCHANGED <<request, response, auth_value, result>>
    /\ UNCHANGED history

\* Lines 174-176, transport failure: make_request(...).await? returns the error.
FirstAttemptFails(c) ==
    /\ pc[c] = "send1"
    /\ sent' = [sent EXCEPT ![c] = Append(@, Submission(settings_snapshot[c], FirstRequest(c)))]
    /\ pc' = [pc EXCEPT ![c] = "done"]
    /\ result' = [result EXCEPT ![c] = Err("Transport", None)]
    /\ UNCHANGED <<api, debug, bundles>>
    /\ UNCHANGED <<config, shared, request, settings_snapshot, response, auth_value>>
    /\ UNCHANGED <<statuses, generated, auth_calls, invoked, lock_ops, waited,
                   blocked_by, supplied, tokens, failures>>

\* Lines 174-179 and 205-217: the first attempt is answered; on 401 the auth-retry
\* protocol starts, otherwise the version guard decides the result.
FirstAttempt(c) ==
    /\ pc[c] = "send1"
    /\ sent' = [sent EXCEPT ![c] = Append(@, Submission(settings_snapshot[c], FirstRequest(c)))]
    /\ \E r \in Responses(server_version) :
          /\ response' = [response EXCEPT ![c] = r]
          /\ statuses' = [statuses EXCEPT ![c] = Append(@, r.status)]
          /\ IF IsUnauthorized(r)
             THEN /\ pc' = [pc EXCEPT ![c] = "try_lock"]
                  /\ UNCHANGED result
             ELSE /\ pc' = [pc EXCEPT ![c] = "done"]
                  /\ result' = [result EXCEPT ![c] = VersionGuard(r)]
    /\ UNCHANGED <<api, debug, bundles>>
    /\ UNCHANGED <<config, shared, request, settings_snapshot, auth_value>>
    /\ UNCHANGED <<generated, auth_calls, invoked, lock_ops, waited, blocked_by, supplied,
                   tokens, failures>>

\* Lines 180-181 and 194: auth_callback.try_lock(), then the look at the Option.
TryLock(c) ==
    /\ pc[c] = "try_lock"
    /\ lock_ops' = [lock_ops EXCEPT ![c] = @ + 1]
    /\ IF TryLockSucceeds(auth_lock)
       THEN /\ auth_lock' = c
            /\ UNCHANGED <<waited, blocked_by>>
            /\ IF auth_callback # None
               THEN /\ pc' = [pc EXCEPT ![c] = "authenticate"]
                    /\ auth_calls' = auth_calls + 1
                    /\ invoked' = [invoked EXCEPT ![c] = @ + 1]
               ELSE /\ pc' = [pc EXCEPT ![c] = "no_callback"]
                    /\ UNCHANGED <<auth_calls, invoked>>
       ELSE /\ pc' = [pc EXCEPT ![c] = "lock"]
            /\ waited' = [waited EXCEPT ![c] = TRUE]
            /\ blocked_by' = [blocked_by EXCEPT ![c] = auth_lock]
            /\ UNCHANGED <<auth_lock, auth_calls, invoked>>
    /\ UNCHANGED <<api, debug, bundles>>
    /\ UNCHANGED <<config, auth_waiters, settings_lock, request_settings>>
    /\ UNCHANGED <<request, settings_snapshot, response, auth_value, result>>
    /\ UNCHANGED <<sent, statuses, generated, supplied, tokens, failures>>

\* Lines 183-186, success: authenticate returns a new Authorization value.
AuthenticateOk(c) ==
    /\ pc[c] = "authenticate"
    /\ tokens' = tokens + 1
    /\ auth_value' = [auth_value EXCEPT ![c] = Some(tokens + 1)]
    /\ pc' = [pc EXCEPT ![c] = "patch"]
    /\ UNCHANGED <<api, debug, bundles>>
    /\ UNCHANGED <<config, shared, request, settings_snapshot, response, result>>
    /\ UNCHANGED <<sent, statuses, generated, auth_calls, invoked, lock_ops, waited,
                   blocked_by, supplied, failures>>

\* Variant of AuthenticateErr: the error is returned with the guard still owned.
AuthenticateErrKeepsGuard(c) ==
    /\ pc[c] = "authenticate"
    /\ failures' = failures + 1
    /\ pc' = [pc EXCEPT ![c] = "done"]
    /\ result' = [result EXCEPT ![c] = Err("AuthCallback", None)]
    /\ UNCHANGED <<api, debug, bundles>>
    /\ UNCHANGED <<config, shared, request, settings_snapshot, response, auth_value>>
    /\ UNCHANGED <<sent, statuses, generated, auth_calls, invoked, lock_ops, waited,
                   blocked_by, supplied, tokens>>

\* Lines 183-186, failure: `?` returns Error::AuthCallback and drops the guard.
AuthenticateErr(c) ==
    /\ pc[c] = "authenticate"
    /\ failures' = failures + 1
    /\ pc' = [pc EXCEPT ![c] = "done"]
    /\ result' = [result EXCEPT ![c] = Err("AuthCallback", None)]
    /\ auth_lock' = AfterUnlock
    /\ auth_waiters' = WaitersAfterUnlock
    /\ UNCHANGED <<api, debug, bundles>>
    /\ UNCHANGED <<config, settings_lock, request_settings>>
    /\ UNCHANGED <<request, settings_snapshot, response, auth_value>>
    /\ UNCHANGED <<sent, statuses, generated, auth_calls, invoked, lock_ops, waited,
                   blocked_by, supplied, tokens>>

\* Variant of Patch: the guard is dropped first and the settings are patched
\* afterwards.
PatchAfterUnlock(c) ==
    /\ pc[c] = "patch"
    /\ IF auth_lock = c
       THEN /\ auth_lock' = AfterUnlock
            /\ auth_waiters' = WaitersAfterUnlock
            /\ UNCHANGED <<settings_lock, request_settings, pc>>
       ELSE /\ settings_lock = c
            /\ request_settings' = SetAuthorization(request_settings, auth_value[c])
            /\ settings_lock' = Free
            /\ pc' = [pc EXCEPT ![c] = "reread"]
            /\ UNCHANGED <<auth_lock, auth_waiters>>
    /\ UNCHANGED <<api, debug, bundles>>
    /\ UNCHANGED config
    /\ UNCHANGED <<request, settings_snapshot, response, auth_value, result>>
    /\ UNCHANGED history

\* Lines 187-189 and 108-110: patch_request_settings(|settings|
\* settings.header(AUTHORIZATION, auth_value)): the mutator is applied to the
\* content and the result written back under the guard, which is then dropped.
Patch(c) ==
    /\ pc[c] = "patch"
    /\ settings_lock = c
    /\ request_settings' = SetAuthorization(request_settings, auth_value[c])
    /\ settings_lock' = Free
    /\ pc' = [pc EXCEPT ![c] = "unlock"]
    /\ UNCHANGED <<api, debug, bundles>>
    /\ UNCHANGED <<config, auth_lock, auth_waiters>>
    /\ UNCHANGED <<request, settings_snapshot, response, auth_value, result>>
    /\ UNCHANGED history

\* Line 194: the guard of the refreshing caller goes out of scope after the patch.
DropGuard(c) ==
    /\ pc[c] = "unlock"
    /\ auth_lock' = AfterUnlock
    /\ auth_waiters' = WaitersAfterUnlock
    /\ pc' = [pc EXCEPT ![c] = "reread"]
    /\ UNCHANGED <<api, debug, bundles>>
    /\ UNCHANGED <<config, settings_lock, request_settings>>
    /\ UNCHANGED <<request, settings_snapshot, response, auth_value, result>>
    /\ UNCHANGED history

\* Variant of NoCallbackReturn: the response is returned with the guard still
\* owned.
NoCallbackKeepsGuard(c) ==
    /\ pc[c] = "no_callback"
    /\ pc' = [pc EXCEPT ![c] = "done"]
    /\ result' = [result EXCEPT ![c] = Ok(response[c])]
    /\ UNCHANGED <<api, debug, bundles>>
    /\ UNCHANGED <<config, shared>>
    /\ UNCHANGED <<request, settings_snapshot, response, auth_value>>
    /\ UNCHANGED history

\* Lines 190-193: no auth callback; return Ok(response) drops the guard.
NoCallbackReturn(c) ==
    /\ pc[c] = "no_callback"
    /\ auth_lock' = AfterUnlock
    /\ auth_waiters' = WaitersAfterUnlock
    /\ pc' = [pc EXCEPT ![c] = "done"]
    /\ result' = [result EXCEPT ![c] = Ok(response[c])]
    /\ UNCHANGED <<api, debug, bundles>>
    /\ UNCHANGED <<config, settings_lock, request_settings>>
    /\ UNCHANGED <<request, settings_snapshot, response, auth_value>>
    /\ UNCHANGED history

\* Variant of LockAwait: the caller does not wait for the mutex and goes on to
\* re-read the settings at once.
LockNotAwaited(c) ==
    /\ pc[c] = "lock"
    /\ lock_ops' = [lock_ops EXCEPT ![c] = @ + 1]
    /\ pc' = [pc EXCEPT ![c] = "reread"]
    /\ UNCHANGED <<api, debug, bundles>>
    /\ UNCHANGED <<config, shared>>
    /\ UNCHANGED <<request, settings_snapshot, response, auth_value, result>>
    /\ UNCHANGED <<sent, statuses, generated, auth_calls, invoked, waited, blocked_by,
                   supplied, tokens, failures>>

\* Line 197, first half: auth_callback.lock() takes the mutex if nobody owns it,
\* else the caller joins the FIFO queue of the mutex.
LockAwait(c) ==
    /\ pc[c] = "lock"
    /\ lock_ops' = [lock_ops EXCEPT ![c] = @ + 1]
    /\ IF auth_lock = Free
       THEN /\ auth_lock' = c
            /\ UNCHANGED auth_waiters
       ELSE /\ auth_waiters' = Append(auth_waiters, c)
            /\ UNCHANGED auth_lock
    /\ pc' = [pc EXCEPT ![c] = "queued"]
    /\ UNCHANGED <<api, debug, bundles>>
    /\ UNCHANGED <<config, settings_lock, request_settings>>
    /\ UNCHANGED <<request, settings_snapshot, response, auth_value, result>>
    /\ UNCHANGED <<sent, statuses, generated, auth_calls, invoked, waited, blocked_by,
                   supplied, tokens, failures>>

\* Line 197, second half: `_ = guard` drops the guard as soon as the waiter owns it.
WaiterDrop(c) ==
    /\ pc[c] = "queued"
    /\ auth_lock = c
    /\ auth_lock' = AfterUnlock
    /\ auth_waiters' = WaitersAfterUnlock
    /\ pc' = [pc EXCEPT ![c] = "reread"]
    /\ UNCHANGED <<api, debug, bundles>>
    /\ UNCHANGED <<config, settings_lock, request_settings>>
    /\ UNCHANGED <<request, settings_snapshot, response, auth_value, result>>
    /\ UNCHANGED history

\* Line 200: request_settings = self.request_settings().
Reread(c) ==
    /\ pc[c] = "reread"
    /\ settings_lock = c
    /\ settings_snapshot' = [settings_snapshot EXCEPT ![c] = request_settings]
    /\ settings_lock' = Free
    /\ pc' = [pc EXCEPT ![c] = "send2"]
    /\ UNCHANGED <<api, debug, bundles>>
    /\ UNCHANGED <<config, auth_lock, auth_waiters, request_settings>>
    /\ UNCHANGED <<request, response, auth_value, result>>
    /\ UNCHANGED history

\* Line 202, transport failure of the resend.
RetryFails(c) ==
    /\ pc[c] = "send2"
    /\ sent' = [sent EXCEPT ![c] = Append(@, Submission(settings_snapshot[c], RetryRequest(c)))]
    /\ pc' = [pc EXCEPT ![c] = "done"]
    /\ result' = [result EXCEPT ![c] = Err("Transport", None)]
    /\ UNCHANGED <<api, debug, bundles>>
    /\ UNCHANGED <<config, shared, request, settings_snapshot, response, auth_value>>
    /\ UNCHANGED <<statuses, generated, auth_calls, invoked, lock_ops, waited,
                   blocked_by, supplied, tokens, failures>>

\* Lines 202-217: the resend is answered; the version guard decides the result.
Retry(c) ==
    /\ pc[c] = "send2"
    /\ sent' = [sent EXCEPT ![c] = Append(@, Submission(settings_snapshot[c], RetryRequest(c)))]
    /\ \E r \in Responses(server_version) :
          /\ response' = [response EXCEPT ![c] = r]
          /\ statuses' = [statuses EXCEPT ![c] = Append(@, r.status)]
          /\ pc' = [pc EXCEPT ![c] = AfterRetry(r)]
          /\ IF AfterRetry(r) = "done"
             THEN result' = [result EXCEPT ![c] = VersionGuard(r)]
             ELSE UNCHANGED result
    /\ UNCHANGED <<api, debug, bundles>>
    /\ UNCHANGED <<config, shared, request, settings_snapshot, auth_value>>
    /\ UNCHANGED <<generated, auth_calls, invoked, lock_ops, waited, blocked_by, supplied,
                   tokens, failures>>

\* One step of the run_request call of caller c.
RunRequest(c) ==
        \/ Begin(c)
        \/ LockSettings(c)
        \/ Snapshot(c)
        \/ FirstAttemptFails(c)
        \/ FirstAttempt(c)
        \/ TryLock(c)
        \/ AuthenticateOk(c)
        \/ AuthenticateErr(c)
        \/ Patch(c)
        \/ DropGuard(c)
        \/ NoCallbackReturn(c)
        \/ LockAwait(c)
        \/ WaiterDrop(c)
        \/ Reread(c)
        \/ RetryFails(c)
        \/ Retry(c)

Next == \E c \in Callers : RunRequest(c)

Spec == Init /\ [][Next]_vars

-----------------------------------------------------------------------------
(* Contention for the credential lock *)

\* The request every contender hands in: it can be cloned and built, targets the
\* base origin and brings its own X-Correlation-Id.
PlainRequest == [kind |-> "ok", url |-> SameOriginUrl, correlation |-> Some(CallerCorrelationId)]

\* A client without guards, with or without auth callback, whose server sends
\* no version header.
InitRefresh ==
    /\ error_on_origin_mismatch = FALSE
    /\ error_on_version_mismatch = FALSE
    /\ auth_callback \in {None, Some("login_manager")}
    /\ server_version = None
    /\ request_pool = {PlainRequest}
    /\ Built(Contenders)

NextRefresh == \E c \in Contenders : RunRequest(c)

\* The runtime keeps polling every task that can make progress; every
\* submission is answered or fails, and every authenticate invocation returns.
Fairness == \A c \in Contenders : WF_vars(RunRequest(c))

SpecRefresh == InitRefresh /\ [][NextRefresh]_vars /\ Fairness

-----------------------------------------------------------------------------
(* Debug formatting of the client, concurrent with its requests *)

\* The thread that formats the client; as an owner of a mutex it is told apart
\* from the callers and from the threads of the settings API.
Formatter == NumCallers + NumThreads + 1

\* Variant of FmtTryLock: the formatter takes the mutex with lock(), and goes on
\* once it owns it.
FmtLock ==
    /\ fmt_pc = "idle"
    /\ auth_lock = Free
    /\ auth_lock' = Formatter
    /\ fmt_auth' = Some(IF auth_callback # None THEN "Some(<login_manager>)" ELSE "None")
    /\ fmt_pc' = "inside"
    /\ UNCHANGED <<config, auth_waiters, settings_lock, request_settings>>
    /\ UNCHANGED <<locals, history, api, fmt_settings, bundles>>

\* Lines 247-256: match self.auth_callback.try_lock(); Ok(inside) renders the
\* Option behind the mutex, Err(_) renders "<blocked>".
FmtTryLock ==
    /\ fmt_pc = "idle"
    /\ IF TryLockSucceeds(auth_lock)
       THEN /\ auth_lock' = Formatter
            /\ fmt_auth' = Some(IF auth_callback # None THEN "Some(<login_manager>)"
                                ELSE "None")
            /\ fmt_pc' = "inside"
       ELSE /\ fmt_auth' = Some("<blocked>")
            /\ fmt_pc' = "fields"
            /\ UNCHANGED auth_lock
    /\ UNCHANGED <<config, auth_waiters, settings_lock, request_settings>>
    /\ UNCHANGED <<locals, history, api, fmt_settings, bundles>>

\* Line 256: the guard `inside` goes out of scope at the end of the match, before
\* any field is formatted.
FmtDropGuard ==
    /\ fmt_pc = "inside"
    /\ auth_lock' = AfterUnlock
    /\ auth_waiters' = WaitersAfterUnlock
    /\ fmt_pc' = "fields"
    /\ UNCHANGED <<config, settings_lock, request_settings>>
    /\ UNCHANGED <<locals, history, api, fmt_auth, fmt_settings, bundles>>

\* Lines 258-265: the fields are formatted.  Debug of std::sync::Mutex uses
\* try_lock: it renders the content, or "<locked>" while another thread owns
\* the mutex; its guard lives for the formatting of the content only.
FmtFields ==
    /\ fmt_pc = "fields"
    /\ fmt_settings' = IF settings_lock = Free THEN Some(request_settings)
                       ELSE Some("<locked>")
    /\ fmt_pc' = "done"
    /\ UNCHANGED <<config, shared>>
    /\ UNCHANGED <<locals, history, api, fmt_auth, bundles>>

\* One step of <ClientData as Debug>::fmt.
Fmt == FmtTryLock \/ FmtDropGuard \/ FmtFields

\* A client with or without auth callback whose requests pass the guards, shared
\* by callers of run_request and a thread that formats it.
InitDebug ==
    /\ error_on_origin_mismatch = FALSE
    /\ error_on_version_mismatch = FALSE
    /\ auth_callback \in {None, Some("login_manager")}
    /\ server_version = None
    /\ request_pool = {PlainRequest}
    /\ Built(Callers)

NextDebug == (\E c \in Callers : RunRequest(c)) \/ Fmt

SpecDebug == InitDebug /\ [][NextDebug]_vars

-----------------------------------------------------------------------------
(* The settings API, called by threads that share the Client *)

\* A thread starts patch_request_settings(mutator), set_request_settings(settings)
\* or request_settings(); each of them begins by locking the mutex.
CallSettings(t) ==
    /\ api_pc[t] = "idle"
    /\ \E op \in SettingsOps :
          /\ api_op' = [api_op EXCEPT ![t] = op]
          /\ api_pc' = [api_pc EXCEPT ![t] =
                            IF op.kind = "read_then_set" THEN "read_lock" ELSE "lock"]
    /\ UNCHANGED <<debug, bundles>>
    /\ UNCHANGED <<config, shared, locals, history, api_local>>

\* Variant of SettingsLocked: the mutex is taken without regard to its owner.
SettingsLockedUnchecked(t) ==
    /\ api_pc[t] \in {"lock", "read_lock"}
    /\ settings_lock' = t
    /\ api_pc' = [api_pc EXCEPT ![t] =
                      IF api_pc[t] = "read_lock" THEN "read"
                      ELSE IF api_op[t].kind = "patch" THEN "mutate" ELSE "write"]
    /\ UNCHANGED <<debug, bundles>>
    /\ UNCHANGED <<config, auth_lock, auth_waiters, request_settings>>
    /\ UNCHANGED <<locals, history, api_op, api_local>>

\* Lines 86, 96 and 107: self.0.request_settings.lock(); the thread goes on once
\* it owns the mutex.
SettingsLocked(t) ==
    /\ api_pc[t] \in {"lock", "read_lock"}
    /\ settings_lock = Free
    /\ settings_lock' = t
    /\ api_pc' = [api_pc EXCEPT ![t] =
                      IF api_pc[t] = "read_lock" THEN "read"
                      ELSE IF api_op[t].kind = "patch" THEN "mutate" ELSE "write"]
    /\ UNCHANGED <<debug, bundles>>
    /\ UNCHANGED <<config, auth_lock, auth_waiters, request_settings>>
    /\ UNCHANGED <<locals, history, api_op, api_local>>

\* Line 86: request_settings() returns a clone of the content; the guard is a
\* temporary and is dropped with it.  The caller then computes the settings it
\* wants and calls set_request_settings with them.
ReadSettings(t) ==
    /\ api_pc[t] = "read"
    /\ api_local' = [api_local EXCEPT ![t] = api_op[t].mutator[request_settings]]
    /\ settings_lock' = Free
    /\ api_pc' = [api_pc EXCEPT ![t] = "lock"]
    /\ UNCHANGED <<debug, bundles>>
    /\ UNCHANGED <<config, auth_lock, auth_waiters, request_settings>>
    /\ UNCHANGED <<locals, history, api_op>>

\* Variant of PatchMutate: the mutator is not applied to the clone.
PatchKeepsClone(t) ==
    /\ api_pc[t] = "mutate"
    /\ api_local' = [api_local EXCEPT ![t] = request_settings]
    /\ api_pc' = [api_pc EXCEPT ![t] = "write"]
    /\ UNCHANGED <<debug, bundles>>
    /\ UNCHANGED <<config, shared, locals, history, api_op>>

\* Line 109: let patched = mutator(request_settings.clone());
PatchMutate(t) ==
    /\ api_pc[t] = "mutate"
    /\ api_local' = [api_local EXCEPT ![t] = api_op[t].mutator[request_settings]]
    /\ api_pc' = [api_pc EXCEPT ![t] = "write"]
    /\ UNCHANGED <<debug, bundles>>
    /\ UNCHANGED <<config, shared, locals, history, api_op>>

\* Lines 97 and 110: *request_settings = settings (the argument of
\* set_request_settings) or = patched; the guard is dropped on return.
WriteSettings(t) ==
    /\ api_pc[t] = "write"
    /\ request_settings' = IF api_op[t].kind = "set" THEN api_op[t].settings
                           ELSE api_local[t]
    /\ settings_lock' = Free
    /\ api_pc' = [api_pc EXCEPT ![t] = "done"]
    /\ UNCHANGED <<debug, bundles>>
    /\ UNCHANGED <<config, auth_lock, auth_waiters>>
    /\ UNCHANGED <<locals, history, api_op, api_local>>

NextSettings ==
    \E t \in Threads :
        \/ CallSettings(t)
        \/ SettingsLocked(t)
        \/ ReadSettings(t)
        \/ PatchMutate(t)
        \/ WriteSettings(t)

\* Threads that use the settings API of one Client concurrently.
SpecSettings == Init /\ [][NextSettings]_vars

-----------------------------------------------------------------------------
(* Transactions: planning, submission, the server, iteration over the answer *)

\* Resources: a Patient, and an Encounter whose subject is a reference.
Patient(id) == [type |-> "Patient", id |-> id, subject |-> None]
Encounter(subject) == [type |-> "Encounter", id |-> None, subject |-> subject]

\* The placeholder reference handed out for the n-th create of a transaction
\* (a urn:uuid text), and a reference to a stored resource.
Placeholder(n) == <<"urn:uuid", n>>
Reference(type, id) == <<type, id>>

\* The entries the transaction builder appends for its operations.
DeleteEntry(type, id) == with_request(empty, with_method_delete(make(Reference(type, id))))
ReadEntry(type, id) == with_request(empty, with_method_get(make(Reference(type, id))))
UpdateEntry(resource, conditional) ==
    LET put == with_method_put(make(Reference(resource.type, resource.id[1])))
    IN  with_resource(
            with_request(empty, IF conditional THEN with_if_match(put, "W/1") ELSE put),
            resource)
CreateEntry(resource, n) ==
    with_resource(
        with_request(with_full_url(empty, Placeholder(n)),
                     with_method_post(make(Reference(resource.type, 0)))),
        resource)

\* Number of create operations among the planned entries.
Creates(list) == Cardinality({i \in 1..Len(list) : list[i][1].request[1].method = "POST"})

\* The operations a caller may plan next: delete, read and update of resources
\* the server has, create of a Patient, and create of an Encounter whose
\* subject is absent or the placeholder of an earlier create.
PlannedEntries(list) ==
    { DeleteEntry("Patient", 1), ReadEntry("Patient", 1) }
    \cup { UpdateEntry(Patient(Some(3)), conditional) : conditional \in BOOLEAN }
    \cup { CreateEntry(Patient(None), Creates(list) + 1) }
    \cup { CreateEntry(Encounter(subject), Creates(list) + 1) :
             subject \in {None} \cup {Some(Placeholder(n)) : n \in 1..Creates(list)} }

\* The server: the id it assigns to the resource created by entry i, and the
\* identity (a reference) of that resource.
AssignedId(i) == 100 + i
Identity(bundle, i) == Reference(bundle.entry[i][1].resource[1].type, AssignedId(i))

\* The server resolves a reference that is the fullUrl of a create entry of the
\* same bundle to the identity of the resource created; others stay.
Resolve(bundle, ref) ==
    LET creators == {i \in 1..Len(bundle.entry) :
                        /\ bundle.entry[i] # None
                        /\ bundle.entry[i][1].request[1].method = "POST"
                        /\ bundle.entry[i][1].full_url = Some(ref)}
    IN  IF creators = {} THEN ref ELSE Identity(bundle, CHOOSE i \in creators : TRUE)

\* The resource the server holds for entry i after the bundle was processed.
Stored(bundle, i) ==
    LET entry == bundle.entry[i][1]
        method == entry.request[1].method
        resolved(resource) ==
            [resource EXCEPT !.subject = IF @ = None THEN None
                                         ELSE Some(Resolve(bundle, @[1]))]
    IN  IF method = "POST"
        THEN Some([resolved(entry.resource[1]) EXCEPT !.id = Some(AssignedId(i))])
        ELSE IF method = "PUT" THEN Some(resolved(entry.resource[1]))
        ELSE IF method = "GET" THEN Some(Patient(Some(entry.request[1].url[2])))
        ELSE None

\* The response entry for entry i; `answers` records the position of the
\* operation it answers (on the wire, the position is all there is).
ResponseEntry(bundle, i) ==
    LET method == bundle.entry[i][1].request[1].method
    IN  [empty EXCEPT
            !.resource = IF method = "DELETE" THEN None ELSE Stored(bundle, i),
            !.response = Some([status |-> IF method = "POST" THEN 201
                                          ELSE IF method = "DELETE" THEN 204 ELSE 200,
                               location |-> IF method = "POST"
                                            THEN Some(Identity(bundle, i)) ELSE None,
                               answers |-> i])]

\* The bundles a server may answer with: one entry per submitted entry, in the
\* same order; the decoded entry list is a Vec<Option<BundleEntry>>, in which
\* any position may be absent.  A malformed answer lacks the last entry.
ServerResponses(bundle) ==
    { [type |-> "response",
       entry |-> [i \in 1..len |->
                     IF i \in absent THEN None ELSE Some(ResponseEntry(bundle, i))],
       link |-> None] :
          absent \in SUBSET (1..Len(bundle.entry)),
          len \in {Len(bundle.entry) - 1, Len(bundle.entry)} }

\* The caller plans one more operation.
Plan ==
    /\ tx_pc = "building"
    /\ Len(tx_entries) < MaxOps
    /\ \E entry \in PlannedEntries(tx_entries) :
          tx_entries' = Append(tx_entries, Some(entry))
    /\ UNCHANGED <<tx_pc, tx_bundle, tx_stored, tx_returned, tx_yielded>>
    /\ UNCHANGED <<client, paging, subscription, construction>>

\* send(): the planned entries are submitted as one bundle of type batch or
\* transaction; the server processes it and answers.  An answer whose entry list
\* has another length than the submitted one is a protocol error.
Send ==
    /\ tx_pc = "building"
    /\ Len(tx_entries) >= 1
    /\ \E bundle \in {make_batch(tx_entries), make_transaction(tx_entries)} :
          /\ tx_bundle' = bundle
          /\ tx_stored' = [i \in 1..Len(bundle.entry) |-> Stored(bundle, i)]
          /\ \E returned \in ServerResponses(bundle) :
                /\ tx_returned' = returned
                /\ tx_pc' = IF Len(returned.entry) = Len(bundle.entry)
                            THEN "sent" ELSE "protocol_error"
    /\ UNCHANGED <<tx_entries, tx_yielded>>
    /\ UNCHANGED <<client, paging, subscription, construction>>

\* tests/client.rs, lines 124-129: entries.next() on
\* transaction.send().await?.0.entry.into_iter().flatten() yields an entry.
NextEntry ==
    /\ tx_pc = "sent"
    /\ Len(tx_yielded) < Len(into_entries(tx_returned))
    /\ tx_yielded' = Append(tx_yielded, into_entries(tx_returned)[Len(tx_yielded) + 1])
    /\ UNCHANGED <<tx_pc, tx_entries, tx_bundle, tx_stored, tx_returned>>
    /\ UNCHANGED <<client, paging, subscription, construction>>

\* tests/client.rs, line 130: entries.next().is_none().
NoMoreEntries ==
    /\ tx_pc = "sent"
    /\ Len(tx_yielded) = Len(into_entries(tx_returned))
    /\ tx_pc' = "iterated"
    /\ UNCHANGED <<tx_entries, tx_bundle, tx_stored, tx_returned, tx_yielded>>
    /\ UNCHANGED <<client, paging, subscription, construction>>

NextTransaction == Plan \/ Send \/ NextEntry \/ NoMoreEntries

\* A client built with the defaults of the tests (tests/client.rs, client()):
\* no guard is switched on and no auth callback is set.
InitBundles ==
    /\ error_on_origin_mismatch = FALSE
    /\ error_on_version_mismatch = FALSE
    /\ auth_callback = None
    /\ server_version = None
    /\ request_pool = Requests
    /\ Built(Callers)

SpecTransaction == InitBundles /\ [][NextTransaction]_vars

-----------------------------------------------------------------------------
(* Search: the stream over the pages of a search result *)

\* The entry at position i of page k with its resource, a Patient that occurs
\* nowhere else in the result.
Match(k, i) == with_resource(empty, Patient(Some(10 * k + i)))

\* The shapes a page may have: up to MaxEntries entries, any of them absent.
PageShapes == UNION { [1..n -> {"present", "absent"}] : n \in 0..MaxEntries }

\* Page k of a search result, decoded: its entry list as Vec<Option<BundleEntry>>
\* and its next link, the URL of page k + 1, if there are more pages.
Page(k, shape, more) ==
    [type |-> "searchset",
     entry |-> [i \in 1..Len(shape) |->
                   IF shape[i] = "absent" THEN None ELSE Some(Match(k, i))],
     link |-> IF more THEN Some(k + 1) ELSE None]

\* What the server may answer when page k is asked for; a result has up to
\* MaxPages pages.
ServerPages(k) ==
    { Page(k, shape, more) : shape \in PageShapes, more \in {m \in BOOLEAN : m => k < MaxPages} }

\* client.search(...): the search request is answered with the first page.
Search ==
    /\ pg_pc = "idle"
    /\ \E page \in ServerPages(1) :
          /\ pg_pages' = <<page>>
          /\ pg_items' = entries(page)
    /\ pg_page' = 1
    /\ pg_pc' = "streaming"
    /\ UNCHANGED <<pg_yielded, pg_fetches>>
    /\ UNCHANGED <<client, transaction, subscription, construction>>

\* The stream yields the next item of the current page.
YieldItem ==
    /\ pg_pc = "streaming"
    /\ pg_items # <<>>
    /\ pg_yielded' = Append(pg_yielded, Head(pg_items))
    /\ pg_items' = Tail(pg_items)
    /\ UNCHANGED <<pg_pc, pg_pages, pg_page, pg_fetches>>
    /\ UNCHANGED <<client, transaction, subscription, construction>>

\* The current page is exhausted and has a next link: the stream fetches that page.
FetchNextPage ==
    /\ pg_pc = "streaming"
    /\ pg_items = <<>>
    /\ next_page_url(pg_pages[pg_page]) # None
    /\ LET url == next_page_url(pg_pages[pg_page])[1]
       IN  \E page \in ServerPages(url) :
              /\ pg_page' = url
              /\ pg_pages' = Append(pg_pages, page)
              /\ pg_items' = entries(page)
              /\ pg_fetches' = Append(pg_fetches, url)
    /\ UNCHANGED <<pg_pc, pg_yielded>>
    /\ UNCHANGED <<client, transaction, subscription, construction>>

\* The current page is exhausted and has no next link: the stream ends.
EndOfStream ==
    /\ pg_pc = "streaming"
    /\ pg_items = <<>>
    /\ next_page_url(pg_pages[pg_page]) = None
    /\ pg_pc' = "ended"
    /\ UNCHANGED <<pg_pages, pg_page, pg_items, pg_yielded, pg_fetches>>
    /\ UNCHANGED <<client, transaction, subscription, construction>>

NextPaging == Search \/ YieldItem \/ FetchNextPage \/ EndOfStream

SpecPaging == InitBundles /\ [][NextPaging]_vars

-----------------------------------------------------------------------------
(* Construction of entries, requests and bundles (extensions/bundle.rs) *)

\* Requests and entries the functions are applied to: every field unset or set.
SampleRequests ==
    [url : {Reference("Patient", 1)}, method : {"unset", "POST"}, if_match : {None, Some("W/1")}]
SampleEntries ==
    [full_url : {None, Some(Placeholder(1))},
     request : {None} \cup {Some(req) : req \in SampleRequests},
     resource : {None, Some(Patient(None))},
     response : {None}]

\* Entry lists (Vec<Option<BundleEntry>>) of length n.
EntryLists(n) == [1..n -> {None} \cup {Some(entry) : entry \in SampleEntries}]

\* The call of `op` with `arg`, applied to `input`, has returned `output`.
Call(input, op, arg, output) ==
    /\ mk_in' = Some(input)
    /\ mk_op' = Some(<<op, arg>>)
    /\ mk_out' = Some(output)
    /\ mk_pc' = "built"
    /\ UNCHANGED <<client, transaction, paging, subscription>>

\* Lines 181-184: entry.with_full_url(full_url)
WithFullUrl ==
    /\ mk_pc = "idle"
    /\ \E entry \in SampleEntries, full_url \in {Placeholder(1), Placeholder(2)} :
          Call(entry, "with_full_url", full_url, with_full_url(entry, full_url))

\* Lines 186-189: entry.with_request(request)
WithRequest ==
    /\ mk_pc = "idle"
    /\ \E entry \in SampleEntries, req \in SampleRequests :
          Call(entry, "with_request", req, with_request(entry, req))

\* Lines 191-194: entry.with_resource(resource)
WithResource ==
    /\ mk_pc = "idle"
    /\ \E entry \in SampleEntries, resource \in {Patient(None), Encounter(None)} :
          Call(entry, "with_resource", resource, with_resource(entry, resource))

\* Lines 236-239: request.with_if_match(if_match)
WithIfMatch ==
    /\ mk_pc = "idle"
    /\ \E req \in SampleRequests, if_match \in {"W/1", "W/2"} :
          Call(req, "with_if_match", if_match, with_if_match(req, if_match))

\* Lines 66-69: Bundle::make_batch(entries)
MakeBatch ==
    /\ mk_pc = "idle"
    /\ \E n \in 0..MaxEntries : \E list \in EntryLists(n) :
          Call(list, "make_batch", None, make_batch(list))

\* Lines 71-74: Bundle::make_transaction(entries)
MakeTransaction ==
    /\ mk_pc = "idle"
    /\ \E n \in 0..MaxEntries : \E list \in EntryLists(n) :
          Call(list, "make_transaction", None, make_transaction(list))

NextConstruction ==
    \/ WithFullUrl
    \/ WithRequest
    \/ WithResource
    \/ WithIfMatch
    \/ MakeBatch
    \/ MakeTransaction

SpecConstruction == InitBundles /\ [][NextConstruction]_vars

-----------------------------------------------------------------------------
(* Operation $status on Subscription (client/r5/mod.rs) *)

\* Client::url(segments): the base URL with the segments appended to its path.
url(segments) == [BaseUrl EXCEPT !.path = <<BaseUrl.path>> \o segments]

\* Ids of the subscriptions asked about.
SubscriptionIds == {"s1", "s2"}

\* Resources a $status answer may hold besides Patients.
SubscriptionStatus(n) == [type |-> "SubscriptionStatus", id |-> Some(n), subject |-> None]
Subscription(n) == [type |-> "Subscription", id |-> Some(n), subject |-> None]

\* What a decoded entry list may hold at one position: nothing, an entry without
\* resource, or an entry with a resource of one kind or another.
StatusEntries ==
    { None, Some(empty),
      Some(with_resource(empty, Patient(Some(1)))),
      Some(with_resource(empty, Subscription(1))),
      Some(with_resource(empty, SubscriptionStatus(1))),
      Some(with_resource(empty, SubscriptionStatus(2))) }

\* Bodies of responses: a Bundle of up to MaxEntries entries, an
\* OperationOutcome, or text that is no FHIR resource.
Bodies ==
    [kind : {"Bundle"}, entry : UNION { [1..n -> StatusEntries] : n \in 0..MaxEntries }]
    \cup [kind : {"OperationOutcome", "text"}, entry : {<<>>}]

\* Responses run_request may return for the request: success (200, 201) or
\* not (401 without auth callback, 404), with a body.
StatusResponses == [status : {200, 201, UNAUTHORIZED, 404}, body : Bodies]

\* Errors run_request may return instead of a response.
RequestErrors ==
    { Err("Transport", None), Err("AuthCallback", None), Err("DifferentFhirVersion", None) }

\* StatusCode::is_success(): 200 to 299.
is_success(status) == 200 <= status /\ status <= 299

\* SubscriptionStatus::try_from(res).ok()
AsSubscriptionStatus(res) == IF res.type = "SubscriptionStatus" THEN Some(res) ELSE None

\* Variant of FindStatus: the last matching resource is taken.
RECURSIVE FindLastStatus(_)
FindLastStatus(list) ==
    IF list = <<>> THEN None
    ELSE LET rest == FindLastStatus(Tail(list))
         IN  IF rest # None THEN rest
             ELSE IF Head(list) = None \/ Head(list)[1].resource = None THEN None
             ELSE AsSubscriptionStatus(Head(list)[1].resource[1])

\* Lines 119-125: entry.into_iter().flatten().filter_map(|entry| entry.resource)
\* .find_map(|res| SubscriptionStatus::try_from(res).ok())
RECURSIVE FindStatus(_)
FindStatus(list) ==
    IF list = <<>> THEN None
    ELSE IF Head(list) = None THEN FindStatus(Tail(list))
    ELSE IF Head(list)[1].resource = None THEN FindStatus(Tail(list))
    ELSE IF AsSubscriptionStatus(Head(list)[1].resource[1]) # None
         THEN AsSubscriptionStatus(Head(list)[1].resource[1])
    ELSE FindStatus(Tail(list))

\* Error::from_response(response): the error built from the status and the body
\* of the response.
from_response(r) ==
    Err(IF r.body.kind = "OperationOutcome" THEN "OperationOutcome" ELSE "Response",
        Some(r.status))

\* Lines 117-130: what operation_subscription_status makes of the response to
\* the request for `requested`.
StatusOutcome(r, requested) ==
    IF is_success(r.status)
    THEN IF r.body.kind # "Bundle" THEN Err("Json", None)
         ELSE LET resource == FindStatus(r.body.entry)
              IN  IF resource = None THEN Err("ResourceNotFound", Some(requested))
                  ELSE Ok(resource[1])
    ELSE from_response(r)

\* Lines 111-113: the URL and the request for the subscription `id`.
StatusCall ==
    /\ sub_pc = "idle"
    /\ \E id \in SubscriptionIds : sub_url' = url(<<"Subscription", id, "$status">>)
    /\ sub_pc' = "run_request"
    /\ UNCHANGED <<sub_response, sub_result>>
    /\ UNCHANGED <<client, transaction, paging, construction>>

\* Line 115: self.run_request(request).await? returns an error.
StatusRequestFails ==
    /\ sub_pc = "run_request"
    /\ \E e \in RequestErrors : sub_result' = e
    /\ sub_pc' = "done"
    /\ UNCHANGED <<sub_url, sub_response>>
    /\ UNCHANGED <<client, transaction, paging, construction>>

\* Lines 115-130: run_request returns a response, which decides the result.
StatusAnswered ==
    /\ sub_pc = "run_request"
    /\ \E r \in StatusResponses :
          /\ sub_response' = Some(r)
          /\ sub_result' = StatusOutcome(r, sub_url)
    /\ sub_pc' = "done"
    /\ UNCHANGED sub_url
    /\ UNCHANGED <<client, transaction, paging, construction>>

NextStatus == StatusCall \/ StatusRequestFails \/ StatusAnswered

SpecStatus == InitBundles /\ [][NextStatus]_vars

-----------------------------------------------------------------------------
(* Properties *)

\* The first attempt of caller c was answered 401 and had been submitted with the
\* settings the client was built with (no refresh had been published yet).
FirstAttemptUnauthorized(c) ==
    /\ Len(statuses[c]) >= 1
    /\ statuses[c][1] = UNAUTHORIZED
    /\ sent[c][1].authorization = None

\* C1: single-flight refresh.  When a refresh capability is configured and never
\* fails, and all N concurrent calls got 401 on their first attempt, authenticate
\* is invoked once in total and every resend carries the Authorization value of
\* that single invocation.
C1_SingleFlight ==
    ( /\ auth_callback # None
      /\ failures = 0
      /\ \A c \in Callers : FirstAttemptUnauthorized(c) )
    => /\ auth_calls <= 1
       /\ (\A c \in Callers : pc[c] = "done") => auth_calls = 1
       /\ \A c \in Callers : Len(sent[c]) = 2 => sent[c][2].authorization = Some(1)

\* C2: no overlapping refreshes.  At most one authenticate invocation is in
\* progress, and the caller running it owns the credential lock, which it got
\* from try_lock (it never waited).
C2_NoOverlappingRefresh ==
    /\ Cardinality({c \in Callers : pc[c] = "authenticate"}) <= 1
    /\ \A c \in Callers :
          pc[c] = "authenticate" => (auth_lock = c /\ ~waited[c] /\ lock_ops[c] = 1)

\* C2 witness: an authenticate invocation is in progress while another caller,
\* also answered 401, has failed try_lock.
C2_Witness ==
    \E c, d \in Callers :
        /\ c # d
        /\ pc[c] = "authenticate"
        /\ waited[d]
        /\ blocked_by[d] = c

\* C3: auth-retry is exactly one attempt.  A call submits its request at most
\* twice and invokes authenticate at most once; when the resend is answered 401
\* too, the call is over and that response is its final response (handed to the
\* version guard like any final response), with no further refresh or resend.
C3_OneAuthRetry ==
    \A c \in Callers :
        /\ Len(sent[c]) <= 2
        /\ invoked[c] <= 1
        /\ lock_ops[c] <= 2
        /\ (Len(statuses[c]) = 2 /\ statuses[c][2] = UNAUTHORIZED)
              => /\ pc[c] = "done"
                 /\ response[c].status = UNAUTHORIZED
                 /\ result[c] = VersionGuard(response[c])

\* C3 witness: a call whose first attempt and resend were both answered 401 and
\* that returned that second response.
C3_Witness ==
    \E c \in Callers :
        /\ statuses[c] = <<UNAUTHORIZED, UNAUTHORIZED>>
        /\ invoked[c] = 1
        /\ result[c] = Ok(response[c])

MismatchedVersion(h) == h = Some(<<"5">>)

\* C5: version guard.  With error_on_version_mismatch, run_request never returns
\* Ok(response) for a response whose version header has another major version:
\* every call that ends with such a response fails with DifferentFhirVersion
\* carrying the observed version.
C5_VersionGuard ==
    \A c \in Callers :
        ( /\ error_on_version_mismatch
          /\ pc[c] = "done"
          /\ result[c].tag \in {"Ok", "DifferentFhirVersion"}
          /\ MismatchedVersion(response[c].fhir_version) )
        => result[c] = Err("DifferentFhirVersion", Some(<<"5">>))

\* C6: unauthorized with no callback.  Without a refresh capability a call that
\* receives 401 submits its request exactly once and returns that 401 response
\* as Ok, with RequestSettings unchanged, for every caller and interleaving.
C6_NoCallbackNoRetry ==
    auth_callback = None
    => /\ request_settings = InitialSettings
       /\ \A c \in Callers :
             (Len(statuses[c]) >= 1 /\ statuses[c][1] = UNAUTHORIZED)
             => /\ Len(sent[c]) = 1
                /\ pc[c] = "done" => result[c] = Ok(response[c])

\* A call whose authenticate invocation failed has returned Error::AuthCallback
\* after a single submission, holds no Authorization value and no lock.
C7_FailedCall(c) ==
    result[c].tag = "AuthCallback"
    => /\ pc[c] = "done"
       /\ invoked[c] = 1
       /\ Len(sent[c]) = 1
       /\ auth_value[c] = None
       /\ auth_lock # c

\* The step in which authenticate fails: RequestSettings and the submissions stay
\* as they were and the caller gives the mutex up.
C7_FailureStep(c) ==
    (pc[c] = "authenticate" /\ pc'[c] = "done")
    => /\ result'[c].tag = "AuthCallback"
       /\ request_settings' = request_settings
       /\ sent' = sent
       /\ auth_lock' # c

\* C7: refresh failure.  A call whose authenticate invocation failed returns
\* Error::AuthCallback, submitted its request only once, published nothing and
\* does not own the credential lock; the step that fails leaves RequestSettings
\* as it was and gives the lock up.
C7_RefreshFailure ==
    /\ [](\A c \in Callers : C7_FailedCall(c))
    /\ [][\A c \in Callers : C7_FailureStep(c)]_vars

\* C7 witness: after one call's refresh failed, a later 401 of another call
\* started a new authenticate invocation.
C7_Witness ==
    \E c, d \in Callers :
        /\ result[c].tag = "AuthCallback"
        /\ pc[d] = "authenticate"
        /\ auth_calls = 2

\* Caller c has re-read the settings for its resend (line 200).
Resending(c) == pc[c] = "send2" \/ Len(sent[c]) = 2

\* The Authorization value a is one that authenticate returned, and not an older
\* one than b.
AtLeast(a, b) == a # None /\ b # None /\ a[1] >= b[1]

\* C8 as stated: a caller whose try_lock failed, with a refresh capability
\* configured, never invokes authenticate, resends at most once, and resends with
\* settings that contain an Authorization value published by a refresh.
C8_WaiterGetsRefreshedValue ==
    \A c \in Callers :
        (auth_callback # None /\ waited[c])
        => /\ invoked[c] = 0
           /\ Len(sent[c]) <= 2
           /\ Resending(c) => settings_snapshot[c].authorization # None

\* C8, amended: a caller whose try_lock failed never invokes authenticate; it
\* resends at most once (exactly once when it returns), and only after it owned
\* the mutex itself, which it gets after the owner that blocked it let go; if
\* that owner's refresh succeeded, the settings it resends with contain the value
\* that refresh published, or a later refresh's value.
C8_WaiterPath ==
    \A c \in Callers :
        waited[c]
        => /\ invoked[c] = 0
           /\ auth_value[c] = None
           /\ Len(sent[c]) <= 2
           /\ pc[c] = "done" => Len(sent[c]) = 2
           /\ pc[c] \in {"reread", "send2", "done"}
                 => (lock_ops[c] = 2 /\ auth_lock # c /\ pc[blocked_by[c]] \notin
                       {"authenticate", "patch", "unlock", "no_callback"})
           /\ (Resending(c) /\ auth_value[blocked_by[c]] # None)
                 => AtLeast(settings_snapshot[c].authorization, auth_value[blocked_by[c]])
           /\ Len(sent[c]) = 2
                 => sent[c][2].authorization = settings_snapshot[c].authorization

\* C8 witness: a waiter has resent with the value published by the refresh of
\* the caller that blocked it.
C8_Witness ==
    \E c \in Callers :
        /\ waited[c]
        /\ Len(sent[c]) = 2
        /\ auth_value[blocked_by[c]] # None
        /\ sent[c][2].authorization = auth_value[blocked_by[c]]

\* C9: publish before release.  Whenever a caller has got a value from
\* authenticate and no longer owns the mutex, RequestSettings carries that value
\* (or a later refresh's); while the mutex is free RequestSettings carries the
\* latest value authenticate returned; and the refreshing caller resends with
\* settings read after its own write.
C9_PublishBeforeRelease ==
    /\ \A c \in Callers :
          (auth_value[c] # None /\ auth_lock # c)
          => /\ AtLeast(request_settings.authorization, auth_value[c])
             /\ Resending(c)
                   => AtLeast(settings_snapshot[c].authorization, auth_value[c])
             /\ Len(sent[c]) = 2
                   => AtLeast(sent[c][2].authorization, auth_value[c])
    /\ (auth_lock = Free /\ tokens >= 1) => request_settings.authorization = Some(tokens)
    /\ \A c \in Callers : pc[c] = "unlock" => request_settings.authorization = auth_value[c]

\* C9 witness: the refreshing caller has dropped the guard, another caller has
\* already resent with the new value, and the refreshing caller has not resent yet.
C9_Witness ==
    \E c, d \in Callers :
        /\ c # d
        /\ pc[c] \in {"reread", "send2"}
        /\ auth_value[c] # None
        /\ Len(sent[d]) = 2
        /\ sent[d][2].authorization = auth_value[c]

\* C10: correlation id.  A request that came with an X-Correlation-Id keeps it
\* and no id is generated; otherwise exactly one id is generated and attached;
\* the first attempt and the resend of a call carry the same X-Correlation-Id.
C10_CorrelationId ==
    \A c \in Callers :
        /\ generated[c] <= 1
        /\ \A i \in 1..Len(sent[c]) :
              /\ sent[c][i].correlation # None
              /\ sent[c][i].correlation = sent[c][1].correlation
              /\ IF supplied[c] # None
                 THEN sent[c][i].correlation = supplied[c] /\ generated[c] = 0
                 ELSE sent[c][i].correlation = Some(Uuid(c, 1)) /\ generated[c] = 1

\* C10 witness: a call without a supplied id has resent after a refresh, and
\* another call with a supplied id has resent too.
C10_Witness ==
    \E c, d \in Callers :
        /\ Len(sent[c]) = 2 /\ generated[c] = 1
        /\ Len(sent[d]) = 2 /\ supplied[d] = Some(CallerCorrelationId)

\* C11: request not duplicable.  A request builder whose try_clone() fails makes
\* run_request return Error::RequestNotClone at once, whatever its URL and the
\* origin guard: nothing is submitted, no correlation id is generated, the
\* settings are neither read nor owned, the credential lock is never asked for,
\* and the call is over (never retried).
C11_RequestNotClone ==
    \A c \in Callers :
        (pc[c] # "idle" /\ request[c].kind = "not_clone")
        => /\ pc[c] = "done"
           /\ result[c] = Err("RequestNotClone", None)
           /\ sent[c] = <<>>
           /\ statuses[c] = <<>>
           /\ generated[c] = 0
           /\ lock_ops[c] = 0
           /\ invoked[c] = 0
           /\ auth_lock # c
           /\ settings_lock # c

\* C11 witness: with the origin guard on, a request that cannot be cloned and
\* targets a foreign origin was answered RequestNotClone while another caller
\* runs a refresh and has the settings mutex.
C11_Witness ==
    \E c, d \in Callers :
        /\ error_on_origin_mismatch
        /\ result[c].tag = "RequestNotClone"
        /\ request[c].url \in ForeignUrls
        /\ pc[d] = "patch"
        /\ settings_lock = d

\* The change a thread means to make to the settings, as a mutator.
EffectOf(op) == IF op.kind = "set" THEN Replace(op.settings) ELSE op.mutator

\* The settings that result from applying the changes of the threads in T to
\* settings one after another, in any order.
RECURSIVE SequentialOutcomes(_, _)
SequentialOutcomes(settings, T) ==
    IF T = {} THEN {settings}
    ELSE UNION { SequentialOutcomes(EffectOf(api_op[t])[settings], T \ {t}) : t \in T }

AllThreadsDone == \A t \in Threads : api_pc[t] = "done"

\* C12: atomic patch.  When all threads are done and RequestSettings is not what
\* applying their changes one after another in some order gives, then some thread
\* made its change with request_settings() followed by set_request_settings():
\* concurrent patch_request_settings (and set_request_settings) calls alone never
\* lose an update.
C12_AtomicPatch ==
    (AllThreadsDone /\ request_settings \notin SequentialOutcomes(InitialSettings, Threads))
    => \E t \in Threads : api_op[t].kind = "read_then_set"

\* C12 witness: a thread patched the settings between the read and the set of
\* another thread, and the set overwrote the patch: the final settings are the
\* result of no sequential order.
C12_Witness ==
    /\ AllThreadsDone
    /\ \E t, u \in Threads :
          /\ api_op[t].kind = "patch"
          /\ api_op[u].kind = "read_then_set"
          /\ request_settings = api_op[u].mutator[InitialSettings]
    /\ request_settings \notin SequentialOutcomes(InitialSettings, Threads)

\* The mutator m ignores its argument and always returns x.
Returns(m, x) == \A settings \in SettingsSpace : m[settings] = x

\* The step in which thread t completes set_request_settings(x) or
\* patch_request_settings(|_| x): the thread owned the settings mutex and gives
\* it up, RequestSettings becomes x, and neither the credential state nor the
\* configuration of the client changes.
C13_Completes(t, x) ==
    ( /\ api_pc[t] = "write" /\ api_pc'[t] = "done"
      /\ \/ api_op[t].kind = "set" /\ api_op[t].settings = x
         \/ api_op[t].kind = "patch" /\ Returns(api_op[t].mutator, x) )
    => /\ request_settings' = x
       /\ settings_lock = t /\ settings_lock' = Free
       /\ UNCHANGED <<auth_callback, auth_lock, auth_waiters>>
       /\ UNCHANGED <<error_on_origin_mismatch, error_on_version_mismatch>>

\* C13: set_request_settings(x) is equivalent to patch_request_settings(|_| x):
\* from any state, either call leaves RequestSettings equal to x and changes
\* nothing else.
C13_SetIsPatch ==
    [][\A t \in Threads : \A x \in SettingsSpace : C13_Completes(t, x)]_vars

\* C13 witness: one thread has called set_request_settings(x), another one
\* patch_request_settings(|_| x); both are done and RequestSettings is x.
C13_Witness ==
    \E t, u \in Threads :
        /\ api_pc[t] = "done" /\ api_op[t].kind = "set"
        /\ api_pc[u] = "done" /\ api_op[u].kind = "patch"
        /\ Returns(api_op[u].mutator, api_op[t].settings)
        /\ request_settings = api_op[t].settings

\* Where caller c may be while it owns the settings mutex: inside
\* request_settings() at lines 168 and 200, or inside patch_request_settings at
\* line 187; it owns the credential lock as well in the latter case only.
C14_Held(c) ==
    settings_lock = c
    => /\ pc[c] \in {"snapshot", "patch", "reread"}
       /\ auth_lock = c <=> pc[c] = "patch"
       /\ c \notin {auth_waiters[i] : i \in 1..Len(auth_waiters)}

\* Caller c takes or asks for no credential lock while it owns the settings
\* mutex, and its submissions, its responses and the authenticate invocations
\* stay as they are while it owns it.
C14_Order(c) ==
    settings_lock = c
    => /\ auth_lock' = c => auth_lock = c
       /\ lock_ops'[c] = lock_ops[c]
       /\ sent'[c] = sent[c]
       /\ statuses'[c] = statuses[c]
       /\ invoked'[c] = invoked[c]

\* C14: lock discipline.  A caller owns the settings mutex and the credential
\* lock together only while patch_request_settings runs inside its refresh; it
\* never owns the settings mutex across a submission, a response or an
\* authenticate invocation, and it never acquires or waits for the credential
\* lock while it owns the settings mutex.
C14_LockDiscipline ==
    /\ [](\A c \in Callers : C14_Held(c))
    /\ [][\A c \in Callers : C14_Order(c)]_vars

\* C14 witness: the refreshing caller owns both locks inside
\* patch_request_settings while another caller has been answered 401 and waits
\* for the credential lock.
C14_Witness ==
    \E c, d \in Callers :
        /\ pc[c] = "patch"
        /\ settings_lock = c
        /\ auth_lock = c
        /\ pc[d] = "queued"

\* C15: normal flow ignores the credential lock.  A call whose first response is
\* not 401 is over with that response: it submitted once, never called try_lock
\* or lock, never queued for the credential lock, never invoked authenticate,
\* and its result is what the version guard makes of that response.
C15_NormalFlow ==
    \A c \in Callers :
        (Len(statuses[c]) >= 1 /\ statuses[c][1] # UNAUTHORIZED)
        => /\ pc[c] = "done"
           /\ Len(sent[c]) = 1
           /\ lock_ops[c] = 0
           /\ ~waited[c]
           /\ invoked[c] = 0
           /\ auth_lock # c
           /\ c \notin {auth_waiters[i] : i \in 1..Len(auth_waiters)}
           /\ result[c] = VersionGuard(response[c])

\* C15 witness: a later call has completed with a 200 response while the
\* authenticate invocation of an earlier caller is still in progress.
C15_Witness ==
    \E c, d \in Callers :
        /\ d < c
        /\ pc[d] = "authenticate"
        /\ Len(sent[d]) = 1
        /\ statuses[c] = <<200>>
        /\ pc[c] = "done"
        /\ auth_calls = 1

\* Caller c is blocked in auth_callback.lock().await (line 197).
Blocked(c) == pc[c] = "queued" /\ auth_lock # c

\* While caller c is blocked, no authenticate invocation starts: the one that
\* may be in progress when c queued is the only one c waits for.
C16_NoNewRound(c) ==
    Blocked(c)
    => /\ auth_calls' = auth_calls
       /\ \A d \in Contenders : pc'[d] = "authenticate" => pc[d] = "authenticate"

\* C16: bounded waiting.  While a caller is blocked in the blocking acquire of
\* the credential lock, no new authenticate invocation starts and at most one
\* is in progress, so the caller waits for at most one invocation to complete;
\* and every caller whose try_lock failed eventually resends.
C16_BoundedWaiting ==
    /\ [][\A c \in Contenders : C16_NoNewRound(c)]_vars
    /\ [](\A c \in Contenders :
            Blocked(c) => Cardinality({d \in Contenders : pc[d] = "authenticate"}) <= 1)
    /\ \A c \in Contenders : waited[c] ~> (Len(sent[c]) = 2)

\* C16 witness: one caller runs authenticate, and two callers answered 401 are
\* blocked in the queue of the credential lock behind it.
C16_Witness ==
    \E c, d, e \in Contenders :
        /\ pc[d] = "authenticate"
        /\ auth_waiters = <<c, e>>
        /\ Blocked(c)
        /\ Blocked(e)

\* The call of caller c is over and ended with a response: every submission was
\* answered and no authenticate invocation failed.
EndedWithResponse(c) ==
    /\ pc[c] = "done"
    /\ Len(sent[c]) >= 1
    /\ Len(statuses[c]) = Len(sent[c])
    /\ result[c].tag # "AuthCallback"

\* C20: missing version header.  With error_on_version_mismatch, a call that
\* ends with a response without version header returns Ok with that response;
\* without error_on_version_mismatch no call returns Error::DifferentFhirVersion,
\* and a call that ends with a response returns Ok with it.
C20_MissingVersionHeader ==
    \A c \in Callers :
        /\ (error_on_version_mismatch /\ EndedWithResponse(c)
               /\ response[c].fhir_version = None)
           => result[c] = Ok(response[c])
        /\ ~error_on_version_mismatch
           => /\ result[c].tag # "DifferentFhirVersion"
              /\ EndedWithResponse(c) => result[c] = Ok(response[c])

\* C20 witness: with error_on_version_mismatch, a call got Ok for the response
\* to its resend, which has no version header.
C20_Witness ==
    \E c \in Callers :
        /\ error_on_version_mismatch
        /\ statuses[c] = <<UNAUTHORIZED, 200>>
        /\ response[c].fhir_version = None
        /\ result[c] = Ok(response[c])

\* The position of the k-th present element of a list of optional elements.
KthPresent(list, k) ==
    CHOOSE p \in 1..Len(list) :
        /\ list[p] # None
        /\ Cardinality({q \in 1..p : list[q] # None}) = k

NumPresent(list) == Cardinality({p \in 1..Len(list) : list[p] # None})

Creator(n) ==
    CHOOSE i \in 1..Len(tx_entries) :
        /\ tx_entries[i][1].request[1].method = "POST"
        /\ Creates(SubSeq(tx_entries, 1, i)) = n

\* Entry j carries a resource whose subject is the placeholder of the n-th create.
RefersTo(j, n) ==
    /\ tx_entries[j][1].resource # None
    /\ tx_entries[j][1].resource[1].subject = Some(Placeholder(n))

\* C18: forward reference resolution.  For an operation whose resource refers to
\* the placeholder of an earlier create of the same transaction: the bundle is
\* submitted with the placeholder in the reference and as fullUrl of the create
\* entry; the reference the server stores is not the placeholder but the
\* identity the server assigned to the created resource, which is the location
\* of the response entry of the create (when that entry is present).
C18_ForwardReference ==
    \A j \in 1..Len(tx_entries) : \A n \in 1..Creates(tx_entries) :
        (tx_pc # "building" /\ RefersTo(j, n))
        => LET i == Creator(n)
           IN  /\ i < j
               /\ tx_bundle.entry[j] = tx_entries[j]
               /\ tx_bundle.entry[i][1].full_url = Some(Placeholder(n))
               /\ tx_stored[j][1].subject # Some(Placeholder(n))
               /\ tx_stored[j][1].subject = Some(Reference("Patient", AssignedId(i)))
                     \/ tx_stored[j][1].subject = Some(Reference("Encounter", AssignedId(i)))
               /\ tx_stored[i][1].id = Some(tx_stored[j][1].subject[1][2])
               /\ (i <= Len(tx_returned.entry) /\ tx_returned.entry[i] # None)
                     => tx_returned.entry[i][1].response[1].location = tx_stored[j][1].subject

\* C18 witness: delete, create Patient, create Encounter with the Patient's
\* placeholder as subject; the bundle was submitted and answered in full.
C18_Witness ==
    /\ tx_pc = "iterated"
    /\ Len(tx_entries) = 3
    /\ tx_entries[1][1].request[1].method = "DELETE"
    /\ tx_entries[2][1].resource = Some(Patient(None))
    /\ RefersTo(3, 1)
    /\ Len(tx_yielded) = 3
    /\ tx_yielded[2].response[1].location = tx_stored[3][1].subject

\* The present entries of pages 1..k of the result, in page order.  An item is
\* a present entry of a page.
RECURSIVE ItemsUpTo(_)
ItemsUpTo(k) ==
    IF k = 0 THEN <<>>
    ELSE ItemsUpTo(k - 1)
         \o [n \in 1..NumPresent(pg_pages[k].entry) |->
                pg_pages[k].entry[KthPresent(pg_pages[k].entry, n)][1]]

\* What the stream has yielded and what is left of the current page are the
\* items of the pages up to the current one, in page order; the pages were
\* fetched once each, along the chain of next links; an ended stream is at a
\* page without next link and has yielded the items of all pages of the chain.
C19_Yielded ==
    pg_pc # "idle"
    => /\ pg_yielded \o pg_items = ItemsUpTo(pg_page)
       /\ pg_fetches = [n \in 1..(pg_page - 1) |-> n + 1]
       /\ pg_page = Len(pg_pages)
       /\ \A k \in 1..(pg_page - 1) : pg_pages[k].link = Some(k + 1)
       /\ pg_pc = "ended"
          => /\ pg_pages[pg_page].link = None
             /\ pg_items = <<>>
             /\ pg_yielded = ItemsUpTo(Len(pg_pages))
             /\ \A m, n \in 1..Len(pg_yielded) : pg_yielded[m] = pg_yielded[n] => m = n

\* A page is fetched only when the current page is exhausted and has a next
\* link, and the stream ends only on an exhausted page without next link;
\* after the end nothing is yielded or fetched.
C19_Step ==
    /\ (pg_pc = "streaming" /\ pg_page' # pg_page)
       => (pg_items = <<>> /\ pg_pages[pg_page].link = Some(pg_page'))
    /\ (pg_pc = "streaming" /\ pg_pc' = "ended")
       => (pg_items = <<>> /\ pg_pages[pg_page].link = None)
    /\ pg_pc = "ended" => UNCHANGED paging

\* C19: pagination.  A search over K >= 1 chained pages yields every item of
\* every page exactly once, in page order, and then ends; a page without next
\* link ends the stream after its items; a page is fetched only when the items of
\* the current page are exhausted and it has a next link.
C19_Pagination == []C19_Yielded /\ [][C19_Step]_vars

\* C19 witness: a result of three pages, the second without any item, has been
\* streamed to its end, with items from the first and the third page.
C19_Witness ==
    /\ pg_pc = "ended"
    /\ Len(pg_pages) = 3
    /\ entries(pg_pages[2]) = <<>>
    /\ Len(pg_yielded) >= 3
    /\ pg_yielded[1] = Match(1, 1)
    /\ pg_yielded[Len(pg_yielded)] = Match(3, 2)

\* A step in which caller c publishes the Authorization value of its refresh
\* (lines 187-189), as the owner of the credential lock.
Publishes(c) ==
    /\ pc[c] = "patch"
    /\ pc'[c] # "patch"
    /\ auth_lock = c
    /\ request_settings'.authorization = auth_value[c]

\* No step of a request or of Debug formatting changes whether an auth callback
\* is configured, or any part of the settings other than the Authorization
\* header; the Authorization header is written by a publishing step only, and
\* such a step leaves the ownership of the credential lock as it is.
C21_Step ==
    /\ auth_callback' = auth_callback
    /\ request_settings'.accept = request_settings.accept
    /\ request_settings'.retries = request_settings.retries
    /\ request_settings' # request_settings => \E c \in Callers : Publishes(c)
    /\ \A c \in Callers :
          Publishes(c) => (auth_lock' = auth_lock /\ auth_waiters' = auth_waiters)

\* C21: credential state frame.  No operation of the client changes whether a
\* refresh capability is configured (the Option stays Some or stays None), and
\* the only shared state a refresh writes is the Authorization header inside
\* RequestSettings: the other default headers and the retry policy are left
\* unchanged by the refresh.
C21_CredentialFrame == [][C21_Step]_vars

\* C21 witness: a refresh has published its Authorization value into settings
\* whose other parts are those the client was built with, a resend has been
\* submitted with it, and the client has been formatted meanwhile.
C21_Witness ==
    /\ auth_callback = Some("login_manager")
    /\ request_settings = [InitialSettings EXCEPT !.authorization = Some(1)]
    /\ fmt_pc = "done"
    /\ \E c \in Callers : Len(sent[c]) = 2 /\ sent[c][2].authorization = Some(1)

\* The entry at position k of the list is present and holds a resource that is
\* a SubscriptionStatus.
IsStatusAt(list, k) ==
    /\ list[k] # None
    /\ list[k][1].resource # None
    /\ list[k][1].resource[1].type = "SubscriptionStatus"

\* C22: subscription status lookup.  On a success response (whose body is a
\* bundle) operation_subscription_status returns the first resource, in entry
\* order, that is a SubscriptionStatus, skipping absent entries and entries
\* without resource; if the bundle holds none it returns ResourceNotFound with
\* the URL of the request; on a non-success response it returns the error built
\* from the response, never ResourceNotFound.
C22_StatusLookup ==
    (sub_pc = "done" /\ sub_response # None)
    => LET r == sub_response[1]
           list == r.body.entry
       IN  /\ (r.status \in 200..299 /\ r.body.kind = "Bundle")
              => IF \E k \in 1..Len(list) : IsStatusAt(list, k)
                 THEN \E k \in 1..Len(list) :
                         /\ IsStatusAt(list, k)
                         /\ \A j \in 1..(k - 1) : ~IsStatusAt(list, j)
                         /\ sub_result = Ok(list[k][1].resource[1])
                 ELSE /\ sub_result = Err("ResourceNotFound", Some(sub_url))
                      /\ \E id \in SubscriptionIds :
                            sub_url = [BaseUrl EXCEPT
                                          !.path = <<"fhir", "Subscription", id, "$status">>]
           /\ r.status \notin 200..299
              => /\ sub_result.tag \notin {"Ok", "ResourceNotFound", "pending"}
                 /\ sub_result.response = None
                 /\ sub_result.detail = Some(r.status)

\* C22 witness: a success response whose bundle holds two SubscriptionStatus
\* resources has been answered with the first of them.
C22_Witness ==
    /\ sub_pc = "done"
    /\ sub_response # None
    /\ sub_response[1].status = 201
    /\ sub_response[1].body.kind = "Bundle"
    /\ sub_response[1].body.entry =
          <<Some(with_resource(empty, SubscriptionStatus(2))),
            Some(with_resource(empty, SubscriptionStatus(1)))>>
    /\ sub_result = Ok(SubscriptionStatus(2))

\* The function `op` has been applied.
Applied(op) == mk_pc = "built" /\ mk_op[1][1] = op

\* The bundle mk_out[1] is of the given type and its entry list is the input
\* list: same length, same element at every position.
SameEntries(type) ==
    /\ mk_out[1].type = type
    /\ Len(mk_out[1].entry) = Len(mk_in[1])
    /\ \A i \in 1..Len(mk_in[1]) : mk_out[1].entry[i] = mk_in[1][i]

\* C23: bundle construction preserves order.  make_batch(entries) and
\* make_transaction(entries) produce a bundle of type batch respectively
\* transaction whose entry list is the input list, with the same length and the
\* same element at every position, absent entries included; with_full_url,
\* with_request, with_resource and with_if_match each set their own field and
\* leave the others unchanged.
C23_Construction ==
    /\ Applied("make_batch") => SameEntries("batch")
    /\ Applied("make_transaction") => SameEntries("transaction")
    /\ Applied("with_full_url")
       => mk_out[1] = [full_url |-> Some(mk_op[1][2]), request |-> mk_in[1].request,
                       resource |-> mk_in[1].resource, response |-> mk_in[1].response]
    /\ Applied("with_request")
       => mk_out[1] = [full_url |-> mk_in[1].full_url, request |-> Some(mk_op[1][2]),
                       resource |-> mk_in[1].resource, response |-> mk_in[1].response]
    /\ Applied("with_resource")
       => mk_out[1] = [full_url |-> mk_in[1].full_url, request |-> mk_in[1].request,
                       resource |-> Some(mk_op[1][2]), response |-> mk_in[1].response]
    /\ Applied("with_if_match")
       => mk_out[1] = [url |-> mk_in[1].url, method |-> mk_in[1].method,
                       if_match |-> Some(mk_op[1][2])]

\* C23 witness: make_batch has been applied to a list whose first entry is
\* absent and whose second entry has every field set.
C23_Witness ==
    /\ Applied("make_batch")
    /\ Len(mk_in[1]) = 2
    /\ mk_in[1][1] = None
    /\ mk_in[1][2] # None
    /\ mk_in[1][2][1].full_url # None
    /\ mk_in[1][2][1].request # None
    /\ mk_in[1][2][1].resource # None
    /\ mk_out[1].entry = mk_in[1]

\* Caller c is inside run_request: it has called and has not returned.
Pending(c) == pc[c] \notin {"idle", "done"}

\* Caller c waits for the std mutex of the settings, owned by someone else.
BlockedOnSettings(c) ==
    /\ pc[c] \in {"snapshot", "patch", "reread"}
    /\ settings_lock \notin {Free, c}

\* Whenever calls are pending, one of them is blocked on neither lock; a call
\* that has returned owns neither lock and is not queued for the credential
\* lock, whichever way it returned; when all calls have returned both locks
\* are free.
C24_NoDeadlock ==
    /\ (\E c \in Contenders : Pending(c))
       => \E c \in Contenders : Pending(c) /\ ~Blocked(c) /\ ~BlockedOnSettings(c)
    /\ \A c \in Contenders :
          pc[c] = "done"
          => /\ result[c].tag # "pending"
             /\ auth_lock # c
             /\ settings_lock # c
             /\ \A k \in 1..Len(auth_waiters) : auth_waiters[k] # c
    /\ (\A c \in Contenders : pc[c] = "done")
       => (auth_lock = Free /\ auth_waiters = <<>> /\ settings_lock = Free)

\* C24: termination and deadlock freedom.  Every submission being answered or
\* failing and every authenticate invocation returning, every run_request call
\* eventually returns a response or an error; in no reachable state are all
\* pending callers blocked on the credential lock or on the settings lock; the
\* credential lock is released on every exit path (success, refresh failure,
\* no callback).
C24_Termination ==
    /\ []C24_NoDeadlock
    /\ \A c \in Contenders : <>(pc[c] = "done" /\ result[c].tag # "pending")

\* C24 witness: all calls have returned, one after a refresh that failed, one
\* after waiting in the queue of the credential lock, one with a response.
C24_Witness ==
    /\ \A c \in Contenders : pc[c] = "done"
    /\ \E c \in Contenders : result[c].tag = "AuthCallback"
    /\ \E c \in Contenders : waited[c] /\ Len(sent[c]) = 2
    /\ \E c \in Contenders : result[c].tag = "Ok"
    /\ auth_lock = Free

\* What Debug formatting shows for auth_callback when it finds the credential
\* lock with the given owner.
Shown(owner) ==
    IF owner # Free THEN "<blocked>"
    ELSE IF auth_callback = None THEN "None"
    ELSE "Some(<login_manager>)"

\* The formatting can take its next step whoever owns the locks; it owns the
\* credential lock only between its successful try_lock and the end of the
\* match, and never the lock of the settings.
C25_NeverBlocked ==
    /\ fmt_pc # "done" => ENABLED Fmt
    /\ auth_lock = Formatter <=> fmt_pc = "inside"
    /\ \A k \in 1..Len(auth_waiters) : auth_waiters[k] # Formatter
    /\ settings_lock # Formatter
    /\ fmt_pc = "inside" => fmt_auth # Some("<blocked>")

\* The step that looks at the credential lock renders what it finds; no step of
\* the formatting changes the settings, the Option of the auth callback, or
\* anything a run_request call holds.
C25_Step ==
    /\ (fmt_pc = "idle" /\ fmt_pc' # "idle") => fmt_auth' = Some(Shown(auth_lock))
    /\ fmt_pc' # fmt_pc
       => /\ request_settings' = request_settings
          /\ settings_lock' = settings_lock
          /\ auth_callback' = auth_callback
          /\ UNCHANGED <<locals, history>>
    /\ fmt_pc # "idle" => fmt_auth' = fmt_auth

\* C25: non-blocking introspection.  Debug formatting of the client never
\* blocks on the credential lock; it renders "<blocked>" when the lock is held
\* (as during a refresh), otherwise "Some(<login_manager>)" or "None", and it
\* leaves RequestSettings and the credential state unchanged.
C25_Introspection == []C25_NeverBlocked /\ [][C25_Step]_vars

\* C25 witness: the client was formatted while a caller ran authenticate as the
\* owner of the credential lock; the formatting is done and shows "<blocked>".
C25_Witness ==
    /\ fmt_pc = "done"
    /\ fmt_auth = Some("<blocked>")
    /\ \E c \in Callers : pc[c] = "authenticate" /\ auth_lock = c

=============================================================================
